---- MODULE Spec2Model ----
(***************************************************************************)
(* PixelSqueeze (src/src/main.rs): the batch run of main, the per-file     *)
(* pipeline of compress_image, and the shared CompressionStats.            *)
(*                                                                         *)
(* The codec and the file system are the environment.  An input file is a  *)
(* record: its name, its byte size, its pixel dimensions, the size the     *)
(* encoder produces for it in each target format, and how it can fail.     *)
(* The output directory is a set of directory entries; an entry carries    *)
(* the inode it names, the inode's size and the inputs whose bytes it      *)
(* holds.                                                                  *)
(***************************************************************************)
EXTENDS Integers, Sequences, FiniteSets, TLC

\* ------------------------------------------------------------------ bounds
NumWorkers == 2
MaxFiles == 2
\* the single-file runs: image sides 1..MaxDim, resize bounds 1..MaxBound
MaxDim == 12
MaxBound == 8

Workers == 1..NumWorkers

\* ------------------------------------------------------------- the inputs
Formats == {"Jpeg", "Png", "Webp"}

Enc(j, p, w) == [Jpeg |-> j, Png |-> p, Webp |-> w]

Input(stem, ext, size, width, height, enc, fault) ==
    [stem |-> stem, ext |-> ext, size |-> size, width |-> width,
     height |-> height, enc |-> enc, fault |-> fault]

\* fault: "none"; "corrupt" (image::open fails on it); "io" (a file-system
\* call made for it may fail).
Catalogue ==
    << Input("photo", "jpg",  500000, 2000, 1000, Enc(400000, 900000, 300000), "none"),
       Input("scan",  "JPG",  500000, 2000, 1000, Enc(480000, 500000, 520000), "none"),
       Input("photo", "png",  100,    10,   10,   Enc(160, 100, 90),           "none"),
       Input("icon",  "jpeg", 200,    10,   10,   Enc(150, 250, 200),          "none"),
       Input("bad",   "gif",  0,      0,    0,    Enc(0, 0, 0),                "corrupt"),
       Input("bad",   "jpg",  40,     0,    0,    Enc(0, 0, 0),                "corrupt"),
       Input("tmp",   "bmp",  300,    10,   10,   Enc(300, 120, 330),          "io") >>

RECURSIVE SortedSeq(_)
SortedSeq(S) ==
    IF S = {} THEN << >>
    ELSE LET m == CHOOSE x \in S : \A y \in S : x <= y
         IN  << m >> \o SortedSeq(S \ {m})

\* What collect_image_files can return: any MaxFiles or fewer of the inputs,
\* each path once.
Batches ==
    { [i \in 1..Cardinality(S) |-> Catalogue[SortedSeq(S)[i]]] :
        S \in { T \in SUBSET (1..Len(Catalogue)) : Cardinality(T) <= MaxFiles } }

Qualities == {0, 30, 65, 101}
MinSavings == {0, 5}

\* Option<u32>
None == << >>
Some(n) == << n >>

ArgsSet ==
    [quality : Qualities, min_savings : MinSavings, format : Formats,
     max_width : {None}, max_height : {None}]

\* Runs over one file, to cover the pre-flight's bands and margins and the
\* resize arithmetic: the file's size against 100 pixels, qualities around
\* every estimate less 10, every small image shape and bound.
UnitExts == {"jpg", "jpeg", "JPEG", "png"}
UnitSizes == {1, 50, 51, 100, 101, 150, 151, 200}
UnitQualities == {1, 39, 40, 41, 54, 55, 56, 64, 65, 66, 74, 75, 76, 100}
UnitBounds == {None} \cup { Some(n) : n \in 1..MaxBound }

PreflightRuns ==
    { [a |-> [quality |-> q, min_savings |-> 5, format |-> fmt,
              max_width |-> None, max_height |-> None],
       f |-> Input("unit", ext, size, 10, 10, Enc(40, 40, 40), "none")] :
        q \in UnitQualities, fmt \in Formats, ext \in UnitExts, size \in UnitSizes }

ResizeRuns ==
    { [a |-> [quality |-> 65, min_savings |-> 5, format |-> "Png",
              max_width |-> mw, max_height |-> mh],
       f |-> Input("unit", "png", 100, w, h, Enc(60, 60, 60), "none")] :
        mw \in UnitBounds, mh \in UnitBounds, w \in 1..MaxDim, h \in 1..MaxDim }

\* ------------------------------------------------------------------ state
VARIABLES
    args,       \* Args: quality, min_savings, format
    files,      \* what collect_image_files returns
    mainPc,     \* where main is
    outDirMade, \* create_dir_all has run
    pending,    \* items of files.par_iter() no worker has taken yet
    wk,         \* each worker's closure invocation: position and locals
    calls,      \* per input, how many times compress_image was entered
    outDir,     \* the entries of the output directory
    lock,       \* the worker holding the stats mutex, 0 when free
    stats,      \* CompressionStats
    pbPos,      \* the progress bar's position
    report      \* what main printed at its end

vars == << args, files, mainPc, outDirMade, pending, wk, calls, outDir,
           lock, stats, pbPos, report >>

\* ------------------------------------------------------- pure operations
extension(format) ==
    CASE format = "Jpeg" -> "jpg"
      [] format = "Png"  -> "png"
      [] format = "Webp" -> "webp"

to_lowercase(s) ==
    CASE s = "JPG"  -> "jpg"
      [] s = "JPEG" -> "jpeg"
      [] s = "PNG"  -> "png"
      [] OTHER      -> s

file_name(f) == << f.stem, f.ext >>

output_filename(f, format) == << f.stem, extension(format) >>

saturating_sub(a, b) == IF a > b THEN a - b ELSE 0

\* An f64 percentage, kept exact: num / den, den > 0.
Zero == [num |-> 0, den |-> 1]

SavingsPercent(original_size, compressed_size) ==
    IF original_size > 0
    THEN [num |-> saturating_sub(original_size, compressed_size) * 100,
          den |-> original_size]
    ELSE Zero

PctLt(p, t) == p.num < t * p.den
PctGt(p, t) == p.num > t * p.den

EstimatedWrong(file_size, pixels) ==
    IF pixels = 0 THEN (IF file_size > 0 THEN 50 ELSE 85)
    ELSE IF 2 * file_size < 3 * pixels THEN 85
    ELSE IF file_size < pixels THEN 75
    ELSE IF 2 * file_size < pixels THEN 65
    ELSE 50

\* bytes_per_pixel = file_size / pixels as f64: x / 0 is +inf, 0 / 0 is NaN
\* (every comparison with it false).
estimated_quality(file_size, pixels) ==
    IF pixels = 0 THEN (IF file_size > 0 THEN 85 ELSE 50)
    ELSE IF 2 * file_size > 3 * pixels THEN 85
    ELSE IF file_size > pixels THEN 75
    ELSE IF 2 * file_size > pixels THEN 65
    ELSE 50

\* pixels = (width * height) as u64: a JPEG is at most 65535 x 65535, so the
\* u32 product does not wrap.
estimate_jpeg_needs_compression(f, target_quality) ==
    target_quality < estimated_quality(f.size, f.width * f.height) - 10

IsJpegExtAsWritten(f) == f.ext \in {"jpg", "jpeg"}

\* ext.to_lowercase() == "jpg" || ext.to_lowercase() == "jpeg"
is_jpeg_ext(f) == to_lowercase(f.ext) \in {"jpg", "jpeg"}

\* ------------------------------------------------------------- resizing
\* f64::round of a / b, for a >= 0 and b > 0
Round(a, b) == (2 * a + b) \div (2 * b)

AtLeastOne(n) == IF n < 1 THEN 1 ELSE n

\* DynamicImage::resize(nwidth, nheight, filter) of the image crate: the
\* aspect ratio is kept and the image is scaled, up or down, to the largest
\* size that fits in nwidth x nheight (the smaller of the two ratios, each
\* side rounded, at least 1).
resize(width, height, nwidth, nheight) ==
    IF nwidth * height <= nheight * width
    THEN << AtLeastOne(nwidth), AtLeastOne(Round(height * nwidth, width)) >>
    ELSE << AtLeastOne(Round(width * nheight, height)), AtLeastOne(nheight) >>

\* compress_image, lines 329-354: the dimensions of img after the match.
\* (max_w as f32 * aspect_ratio) as u32 truncates; the f32 product is taken
\* as exact.
Resized(width, height, max_width, max_height) ==
    IF max_width # None /\ max_height # None
    THEN resize(width, height, max_width[1], max_height[1])
    ELSE IF max_width # None
    THEN IF width > max_width[1]
         THEN resize(width, height, max_width[1], (max_width[1] * height) \div width)
         ELSE << width, height >>
    ELSE IF max_height # None
    THEN IF height > max_height[1]
         THEN resize(width, height, (max_height[1] * width) \div height, max_height[1])
         ELSE << width, height >>
    ELSE << width, height >>

\* ------------------------------------------------------ CompressionStats
NewStats ==
    [files_processed |-> 0, original_size |-> 0, compressed_size |-> 0,
     errors |-> << >>, file_results |-> << >>]

AddForgetsCompressed(s, result) ==
    [s EXCEPT !.files_processed = @ + 1,
              !.original_size = @ + result.original_size,
              !.file_results = Append(@, result)]

add_file_result(s, result) ==
    [s EXCEPT !.files_processed = @ + 1,
              !.original_size = @ + result.original_size,
              !.compressed_size = @ + result.compressed_size,
              !.file_results = Append(@, result)]

PushErrorDrops(s, msg) == s

push_error(s, msg) == [s EXCEPT !.errors = Append(@, msg)]

\* ------------------------------------------------- the output directory
HasPath(d, path) == \E e \in d : e.path = path

EntryAt(d, path) == CHOOSE e \in d : e.path = path

\* File::create: a new inode under the path, or the inode already there
\* truncated.  The inode is named after the input that created it.
file_create(d, path, i) ==
    IF HasPath(d, path)
    THEN { IF e.path = path THEN [e EXCEPT !.size = 0, !.writers = {}] ELSE e : e \in d }
    ELSE d \cup { [path |-> path, ino |-> i, size |-> 0, writers |-> {}] }

FdOf(d, path) == EntryAt(d, path).ino

\* Writing n bytes from offset 0 through a descriptor of inode ino, for
\* input i; an inode no entry names any more takes the bytes with it.
file_write(d, ino, n, i) ==
    { IF e.ino = ino
      THEN [e EXCEPT !.size = IF n > @ THEN n ELSE @, !.writers = @ \cup {i}]
      ELSE e : e \in d }

RemoveKeeps(d, path) == d

remove_file(d, path) == { e \in d : e.path # path }

\* ---------------------------------------------------------- the workers
NoRet == [kind |-> "None", original_size |-> 0, compressed_size |-> 0,
          skipped |-> FALSE, cause |-> "none"]

Ok(original_size, compressed_size, skipped) ==
    [kind |-> "Ok", original_size |-> original_size,
     compressed_size |-> compressed_size, skipped |-> skipped, cause |-> "none"]

Err(cause) == [NoRet EXCEPT !.kind = "Err", !.cause = cause]

Idle == [pc |-> "idle", file |-> 0, original_size |-> 0, compressed_size |-> 0,
         dims |-> << 0, 0 >>, fd |-> 0, ret |-> NoRet]

IoOk(f) == IF f.fault = "io" THEN BOOLEAN ELSE {TRUE}

SkipKeepsSize(original_size, compressed_size) == Ok(original_size, compressed_size, TRUE)

\* Ok((original_size, original_size, true))
SkipReturn(original_size, compressed_size) == Ok(original_size, original_size, TRUE)

GuardRejectsLarger(savings_percent, min_savings, compressed_size, original_size) ==
    PctLt(savings_percent, min_savings) /\ compressed_size > original_size

\* savings_percent < args.min_savings && compressed_size >= original_size
GuardRejects(savings_percent, min_savings, compressed_size, original_size) ==
    PctLt(savings_percent, min_savings) /\ compressed_size >= original_size

StatusOf(skipped, savings) ==
    IF skipped THEN "Skipped"
    ELSE IF PctGt(savings, 0) THEN "Compressed"
    ELSE IF PctLt(savings, 0) THEN "Enlarged"
    ELSE "No change"

FileResult(filename, original_size, compressed_size, skipped) ==
    LET savings == SavingsPercent(original_size, compressed_size)
    IN  [filename |-> filename, original_size |-> original_size,
         compressed_size |-> compressed_size, savings_percent |-> savings,
         status |-> StatusOf(skipped, savings), skipped |-> skipped]

LeakGuard(w) == w

\* the MutexGuard goes out of scope at the end of the match arm
DropGuard(w) == 0

MutexNeverHeld(holder) == TRUE

\* stats.lock() returns once no other worker holds the mutex
MutexFree(holder) == holder = 0

QualityOnlyZero(quality) == quality = 0

\* args.quality == 0 || args.quality > 100
QualityInvalid(quality) == quality = 0 \/ quality > 100

IsEmptyOrOne(fs) == Len(fs) <= 1

\* files.is_empty()
is_empty(fs) == Len(fs) = 0

JoinedWhenNoneLeft(left, w) == left = {}

\* for_each returns when every item was taken and every closure has ended
Joined(left, w) == left = {} /\ \A x \in Workers : w[x].pc = "idle"

TakeKeeps(items, i) == items

\* par_iter hands each item of files to one closure invocation
Take(items, i) == items \ {i}

\* ------------------------------------------------------------------ Init
Init ==
    /\ args \in ArgsSet
    /\ files \in Batches
    /\ mainPc = "validate"
    /\ outDirMade = FALSE
    /\ pending = {}
    /\ wk = [w \in Workers |-> Idle]
    /\ calls = [i \in 1..Len(files) |-> 0]
    /\ outDir = {}
    /\ lock = 0
    /\ stats = NewStats
    /\ pbPos = 0
    /\ report = "none"

\* ------------------------------------------------------------- main
\* main, lines 122-124: the quality check.
Validate ==
    /\ mainPc = "validate"
    /\ mainPc' = IF QualityInvalid(args.quality) THEN "failed" ELSE "mkdir"
    /\ UNCHANGED << args, files, outDirMade, pending, wk, calls, outDir, lock,
                    stats, pbPos, report >>

\* main, lines 128-137: create_dir_all, which may fail.
CreateOutputDir ==
    /\ mainPc = "mkdir"
    /\ \E ok \in BOOLEAN :
         /\ outDirMade' = ok
         /\ mainPc' = IF ok THEN "collect" ELSE "failed"
    /\ UNCHANGED << args, files, pending, wk, calls, outDir, lock, stats,
                    pbPos, report >>

\* main, lines 139-162: the files found; none ends the run.
Collect ==
    /\ mainPc = "collect"
    /\ IF is_empty(files)
       THEN /\ mainPc' = "done"
            /\ report' = "no image files found"
            /\ UNCHANGED pending
       ELSE /\ mainPc' = "batch"
            /\ pending' = 1..Len(files)
            /\ UNCHANGED report
    /\ UNCHANGED << args, files, outDirMade, wk, calls, outDir, lock, stats, pbPos >>

\* main, lines 209-213: for_each has returned; the statistics are printed.
Finalize ==
    /\ mainPc = "batch"
    /\ Joined(pending, wk)
    /\ mainPc' = "done"
    /\ report' = "statistics"
    /\ UNCHANGED << args, files, outDirMade, pending, wk, calls, outDir, lock,
                    stats, pbPos >>

\* ---------------------------------------------------------- the closure
\* lines 165-169: a worker takes an item and enters compress_image.
Pick(w) ==
    /\ mainPc = "batch"
    /\ wk[w].pc = "idle"
    /\ \E i \in pending :
         /\ pending' = Take(pending, i)
         /\ wk' = [wk EXCEPT ![w] = [Idle EXCEPT !.pc = "preflight", !.file = i]]
         /\ calls' = [calls EXCEPT ![i] = @ + 1]
    /\ UNCHANGED << args, files, mainPc, outDirMade, outDir, lock, stats, pbPos, report >>

Return(w, r) == wk' = [wk EXCEPT ![w].pc = "lock", ![w].ret = r]

\* compress_image, lines 306-323: the input's size and the JPEG pre-flight.
Preflight(w) ==
    /\ wk[w].pc = "preflight"
    /\ LET f == files[wk[w].file] IN
       \E ok \in IoOk(f) :
         IF ~ok THEN Return(w, Err("metadata"))
         ELSE IF is_jpeg_ext(f) /\ f.fault = "corrupt" THEN Return(w, Err("estimate"))
         ELSE LET should_compress_jpeg ==
                     IF is_jpeg_ext(f)
                     THEN estimate_jpeg_needs_compression(f, args.quality)
                     ELSE TRUE
              IN  IF ~should_compress_jpeg /\ args.format = "Jpeg"
                  THEN Return(w, SkipReturn(f.size, f.size))
                  ELSE wk' = [wk EXCEPT ![w].pc = "decode", ![w].original_size = f.size]
    /\ UNCHANGED << args, files, mainPc, outDirMade, pending, calls, outDir, lock,
                    stats, pbPos, report >>

\* compress_image, lines 325-361: image::open, then the output path.
Decode(w) ==
    /\ wk[w].pc = "decode"
    /\ LET f == files[wk[w].file] IN
       \E ok \in IoOk(f) :
         IF ~ok \/ f.fault = "corrupt" THEN Return(w, Err("decode"))
         ELSE wk' = [wk EXCEPT ![w].pc = "create",
                                ![w].dims = Resized(f.width, f.height,
                                                    args.max_width, args.max_height)]
    /\ UNCHANGED << args, files, mainPc, outDirMade, pending, calls, outDir, lock,
                    stats, pbPos, report >>

\* compress_image, lines 368, 379, 397: the output file is created.
Create(w) ==
    /\ wk[w].pc = "create"
    /\ LET i == wk[w].file
           f == files[i]
           path == output_filename(f, args.format) IN
       \E ok \in IoOk(f) :
         IF ~ok THEN Return(w, Err("create")) /\ UNCHANGED outDir
         ELSE /\ outDir' = file_create(outDir, path, i)
              /\ wk' = [wk EXCEPT ![w].pc = "write", ![w].fd = FdOf(outDir', path)]
    /\ UNCHANGED << args, files, mainPc, outDirMade, pending, calls, lock, stats,
                    pbPos, report >>

\* compress_image, lines 373, 384, 397: the encoded bytes are written.
Write(w) ==
    /\ wk[w].pc = "write"
    /\ LET i == wk[w].file
           f == files[i] IN
       \E ok \in IoOk(f) :
         IF ~ok THEN Return(w, Err("write")) /\ UNCHANGED outDir
         ELSE /\ outDir' = file_write(outDir, wk[w].fd, f.enc[args.format], i)
              /\ wk' = [wk EXCEPT ![w].pc = "measure", ![w].fd = 0]
    /\ UNCHANGED << args, files, mainPc, outDirMade, pending, calls, lock, stats,
                    pbPos, report >>

\* compress_image, line 401: the size of what is at the output path.
Measure(w) ==
    /\ wk[w].pc = "measure"
    /\ LET f == files[wk[w].file]
           path == output_filename(f, args.format) IN
       \E ok \in IoOk(f) :
         IF ~ok \/ ~HasPath(outDir, path) THEN Return(w, Err("size"))
         ELSE wk' = [wk EXCEPT ![w].pc = "guard",
                                ![w].compressed_size = EntryAt(outDir, path).size]
    /\ UNCHANGED << args, files, mainPc, outDirMade, pending, calls, outDir, lock,
                    stats, pbPos, report >>

\* compress_image, lines 403-417: the savings guard.
Guard(w) ==
    /\ wk[w].pc = "guard"
    /\ LET f == files[wk[w].file]
           path == output_filename(f, args.format)
           original_size == wk[w].original_size
           compressed_size == wk[w].compressed_size
           savings_percent == SavingsPercent(original_size, compressed_size) IN
         IF GuardRejects(savings_percent, args.min_savings, compressed_size, original_size)
         THEN /\ outDir' = remove_file(outDir, path)
              /\ Return(w, SkipReturn(original_size, compressed_size))
         ELSE /\ UNCHANGED outDir
              /\ Return(w, Ok(original_size, compressed_size, FALSE))
    /\ UNCHANGED << args, files, mainPc, outDirMade, pending, calls, lock, stats,
                    pbPos, report >>

\* main, lines 197, 201: stats.lock().
Lock(w) ==
    /\ wk[w].pc = "lock"
    /\ MutexFree(lock)
    /\ lock' = w
    /\ wk' = [wk EXCEPT ![w].pc = "record"]
    /\ UNCHANGED << args, files, mainPc, outDirMade, pending, calls, outDir, stats,
                    pbPos, report >>

\* main, lines 170-206: the outcome is recorded under the lock, the guard is
\* dropped, the progress bar advances.
Record(w) ==
    /\ wk[w].pc = "record"
    /\ lock = w
    /\ LET f == files[wk[w].file]
           r == wk[w].ret IN
         IF r.kind = "Ok"
         THEN stats' = add_file_result(stats,
                         FileResult(file_name(f), r.original_size, r.compressed_size, r.skipped))
         ELSE stats' = push_error(stats, [filename |-> file_name(f), cause |-> r.cause])
    /\ lock' = DropGuard(w)
    /\ pbPos' = pbPos + 1
    /\ wk' = [wk EXCEPT ![w] = Idle]
    /\ UNCHANGED << args, files, mainPc, outDirMade, pending, calls, outDir, report >>

Next ==
    \/ Validate
    \/ CreateOutputDir
    \/ Collect
    \/ Finalize
    \/ \E w \in Workers :
         \/ Pick(w)
         \/ Preflight(w)
         \/ Decode(w)
         \/ Create(w)
         \/ Write(w)
         \/ Measure(w)
         \/ Guard(w)
         \/ Lock(w)
         \/ Record(w)

Spec == Init /\ [][Next]_vars

\* The single-file runs.
UnitInit ==
    /\ \E r \in PreflightRuns \cup ResizeRuns :
          /\ args = r.a
          /\ files = << r.f >>
    /\ mainPc = "validate"
    /\ outDirMade = FALSE
    /\ pending = {}
    /\ wk = [w \in Workers |-> Idle]
    /\ calls = [i \in 1..Len(files) |-> 0]
    /\ outDir = {}
    /\ lock = 0
    /\ stats = NewStats
    /\ pbPos = 0
    /\ report = "none"

UnitSpec == UnitInit /\ [][Next]_vars

\* The workers of the pool and main run to the end of what they can do.
WorkerStep(w) ==
    \/ Pick(w) \/ Preflight(w) \/ Decode(w) \/ Create(w) \/ Write(w)
    \/ Measure(w) \/ Guard(w) \/ Lock(w) \/ Record(w)

MainStep == Validate \/ CreateOutputDir \/ Collect \/ Finalize

FairSpec ==
    /\ Spec
    /\ WF_vars(MainStep)
    /\ \A w \in Workers : WF_vars(WorkerStep(w))

\* ------------------------------------------------------------ the claims
Indices == 1..Len(files)

Results == stats.file_results

Errors == stats.errors

ResultsOf(i) == { k \in 1..Len(Results) : Results[k].filename = file_name(files[i]) }

ErrorsOf(i) == { k \in 1..Len(Errors) : Errors[k].filename = file_name(files[i]) }

BatchDone == mainPc = "done" /\ report = "statistics"

RECURSIVE SumOriginal(_)
SumOriginal(rs) ==
    IF rs = << >> THEN 0 ELSE rs[1].original_size + SumOriginal(Tail(rs))

RECURSIVE SumCompressed(_)
SumCompressed(rs) ==
    IF rs = << >> THEN 0 ELSE rs[1].compressed_size + SumCompressed(Tail(rs))

OutputPathOf(i) == output_filename(files[i], args.format)

\* An entry at input i's output path that holds bytes encoded from input i.
ArtifactOf(i) == { e \in outDir : e.path = OutputPathOf(i) /\ i \in e.writers }

PreflightSkips(f) ==
    /\ is_jpeg_ext(f)
    /\ ~estimate_jpeg_needs_compression(f, args.quality)
    /\ args.format = "Jpeg"

\* C1: no input ever has more than one record (a FileResult or an error),
\* and when the batch loop has finished every input has exactly one, so
\* len(file_results) + len(errors) is the number of input paths.
C1_ExactlyOneOutcome ==
    /\ \A i \in Indices : Cardinality(ResultsOf(i)) + Cardinality(ErrorsOf(i)) <= 1
    /\ BatchDone =>
         /\ \A i \in Indices : Cardinality(ResultsOf(i)) + Cardinality(ErrorsOf(i)) = 1
         /\ Len(Results) + Len(Errors) = Len(files)

C1_Witness ==
    /\ BatchDone
    /\ Len(files) = 2
    /\ Len(Results) = 1
    /\ Len(Errors) = 1

\* C2: in every state files_processed is len(file_results) and the two
\* aggregate byte counters are the sums of the per-file sizes.
C2_AggregatesAreSums ==
    /\ stats.files_processed = Len(Results)
    /\ stats.original_size = SumOriginal(Results)
    /\ stats.compressed_size = SumCompressed(Results)

C2_Witness ==
    /\ Len(Results) = 2
    /\ stats.compressed_size # stats.original_size
    /\ stats.compressed_size > 0

\* C3: when compress_image has returned for an input, the output directory
\* holds no file encoded from it that is more than 50% larger than it, and an
\* encoded size more than 50% above the original is reported as the original
\* size.
C3_AntiInflation ==
    \A w \in Workers :
        (wk[w].pc = "lock" /\ wk[w].ret.kind = "Ok") =>
            /\ \A e \in ArtifactOf(wk[w].file) :
                   2 * e.size <= 3 * files[wk[w].file].size
            /\ 2 * wk[w].compressed_size > 3 * wk[w].original_size =>
                   wk[w].ret.compressed_size = wk[w].ret.original_size

\* The savings percentage as the claim defines it: negative when the encoded
\* file is larger, 0 when the original is empty.
SignedSavingsBelow(original_size, compressed_size, threshold) ==
    IF original_size > 0
    THEN (original_size - compressed_size) * 100 < threshold * original_size
    ELSE 0 < threshold

\* C4: the guard discards the encoded file and returns (original, original,
\* skipped) exactly when the signed savings percentage is under the threshold
\* and the encoded size is at least the original size; otherwise it keeps the
\* file and returns its size with skipped = false.
C4_SavingsGuardRule ==
    [][\A w \in Workers :
         (wk[w].pc = "guard" /\ wk'[w].pc = "lock") =>
            LET o == wk[w].original_size
                c == wk[w].compressed_size
                discard == SignedSavingsBelow(o, c, args.min_savings) /\ c >= o
            IN  wk'[w].ret = IF discard THEN Ok(o, o, TRUE) ELSE Ok(o, c, FALSE)]_vars

\* Input i was reported skipped by the savings guard (not by the pre-flight).
GuardSkipped(i) ==
    /\ ~PreflightSkips(files[i])
    /\ \/ \E w \in Workers :
             wk[w].file = i /\ wk[w].ret.kind = "Ok" /\ wk[w].ret.skipped
       \/ \E k \in ResultsOf(i) : Results[k].skipped

C6_SkippedKeepsSize ==
    /\ \A k \in 1..Len(Results) :
          /\ Results[k].status = "Skipped" <=> Results[k].skipped
          /\ Results[k].status = "Skipped" =>
                Results[k].compressed_size = Results[k].original_size
    /\ \A w \in Workers :
          (wk[w].ret.kind = "Ok" /\ wk[w].ret.skipped) =>
              wk[w].ret.compressed_size = wk[w].ret.original_size

C6_Witness ==
    /\ Len(Results) = 2
    /\ \E i, j \in Indices :
          /\ PreflightSkips(files[i]) /\ \E k \in ResultsOf(i) : Results[k].status = "Skipped"
          /\ GuardSkipped(j) /\ \E k \in ResultsOf(j) : Results[k].status = "Skipped"
          /\ files[j].enc[args.format] > files[j].size

\* C7: a result that was not skipped is Compressed when the final file is
\* smaller, Enlarged (with a negative savings percentage) when it is larger,
\* and No change when the sizes are equal.
C7_StatusClassification ==
    \A k \in 1..Len(Results) :
        LET r == Results[k] IN
        ~r.skipped =>
           /\ r.compressed_size < r.original_size =>
                 r.status = "Compressed" /\ PctGt(r.savings_percent, 0)
           /\ r.compressed_size > r.original_size =>
                 r.status = "Enlarged" /\ PctLt(r.savings_percent, 0)
           /\ r.compressed_size = r.original_size =>
                 r.status = "No change" /\ r.savings_percent.num = 0

\* The scenario: quality 65, JPEG target, min-savings 5, and a 2000x1000 JPEG
\* input of 500 000 bytes.
ScenarioArgs == args.quality = 65 /\ args.format = "Jpeg" /\ args.min_savings = 5

ScenarioFile(f) ==
    is_jpeg_ext(f) /\ f.width = 2000 /\ f.height = 1000 /\ f.size = 500000

\* C8 as stated: in the scenario an encoder result of at most 475 000 bytes
\* ends Compressed with savings of 5% or more, and one of 475 001..499 999
\* bytes ends Skipped with final size 500 000.
C8_ScenarioAsStated ==
    ScenarioArgs =>
        \A i \in Indices : \A k \in ResultsOf(i) :
            LET f == files[i]
                r == Results[k] IN
            ScenarioFile(f) =>
               /\ f.enc["Jpeg"] <= 475000 =>
                     r.status = "Compressed" /\ ~PctLt(r.savings_percent, 5)
               /\ (f.enc["Jpeg"] > 475000 /\ f.enc["Jpeg"] <= 499999) =>
                     r.status = "Skipped" /\ r.compressed_size = 500000

\* C8 amended: in the scenario the pre-flight skips the input before any
\* encode, whatever the encoder would produce: its worker never gets past the
\* pre-flight, nothing is written for it, no error is recorded, and its
\* result is Skipped with final size 500 000.
C8_ScenarioSkipped ==
    ScenarioArgs =>
        \A i \in Indices :
            ScenarioFile(files[i]) =>
               /\ \A w \in Workers :
                     wk[w].file = i => wk[w].pc \in {"preflight", "lock", "record"}
               /\ ArtifactOf(i) = {}
               /\ ErrorsOf(i) = {}
               /\ \A k \in ResultsOf(i) :
                     /\ Results[k].status = "Skipped"
                     /\ Results[k].original_size = 500000
                     /\ Results[k].compressed_size = 500000

C8_Witness ==
    /\ ScenarioArgs
    /\ BatchDone
    /\ \E i, j \in Indices :
          /\ ScenarioFile(files[i]) /\ files[i].enc["Jpeg"] <= 475000
          /\ ScenarioFile(files[j]) /\ files[j].enc["Jpeg"] > 475000
          /\ ResultsOf(i) # {} /\ ResultsOf(j) # {}

\* C9: a worker that records a failure appends one message naming its file
\* and leaves files_processed, the byte counters and file_results alone;
\* compress_image is entered at most once per input; and when the batch has
\* finished every corrupt input is named by one error and has no result,
\* every other input has its own outcome, and files_processed is the number
\* of inputs less the number of errors.
C9_ErrorStep ==
    \A w \in Workers :
        (wk[w].pc = "record" /\ wk[w].ret.kind = "Err" /\ wk'[w].pc = "idle") =>
            /\ Len(stats'.errors) = Len(stats.errors) + 1
            /\ SubSeq(stats'.errors, 1, Len(stats.errors)) = stats.errors
            /\ stats'.errors[Len(stats'.errors)].filename = file_name(files[wk[w].file])
            /\ stats'.files_processed = stats.files_processed
            /\ stats'.original_size = stats.original_size
            /\ stats'.compressed_size = stats.compressed_size
            /\ stats'.file_results = stats.file_results

C9_ErrorState ==
    /\ \A i \in Indices : calls[i] <= 1
    /\ BatchDone =>
         /\ \A i \in Indices :
               /\ files[i].fault = "corrupt" =>
                     Cardinality(ErrorsOf(i)) = 1 /\ ResultsOf(i) = {}
               /\ Cardinality(ResultsOf(i)) + Cardinality(ErrorsOf(i)) = 1
         /\ stats.files_processed = Len(files) - Len(Errors)

C9_ErrorIsolation == [][C9_ErrorStep]_vars /\ []C9_ErrorState

C9_Witness ==
    /\ BatchDone
    /\ Len(files) = 2
    /\ \E i, j \in Indices :
          /\ files[i].fault = "corrupt" /\ files[j].fault = "none"
          /\ ResultsOf(j) # {}
    /\ stats.files_processed = 1
    /\ Len(Errors) = 1

\* C10: under fair scheduling a batch that has started ends with the
\* statistics reported and a record for every input.
C10_Termination ==
    (mainPc = "batch") ~>
        (BatchDone /\ \A i \in Indices :
                         Cardinality(ResultsOf(i)) + Cardinality(ErrorsOf(i)) = 1)

C10_Witness ==
    /\ BatchDone
    /\ Len(files) = 2
    /\ Len(Errors) = 2

\* The positions of a worker inside compress_image.
InCompressImage == {"preflight", "decode", "create", "write", "measure", "guard"}

C11_HolderState ==
    /\ lock \in Workers \cup {0}
    /\ \A w \in Workers : (lock = w) <=> (wk[w].pc = "record")
    /\ \A w \in Workers : wk[w].pc \in InCompressImage \cup {"idle", "lock"} => lock # w

C11_LockedStep ==
    /\ stats' # stats =>
          /\ lock \in Workers
          /\ wk[lock].pc = "record"
          /\ wk'[lock].pc = "idle"
          /\ lock' = 0
    /\ (lock' # lock /\ lock' # 0) =>
          /\ lock = 0
          /\ wk[lock'].pc = "lock"
          /\ wk[lock'].ret # NoRet

\* C11: the statistics change only in a step of the worker that holds the
\* mutex; the mutex has a holder exactly while one worker is recording, so
\* never two holders, never a holder inside compress_image; it is taken by a
\* worker whose compress_image call has returned and is free again when that
\* worker is idle for its next file.
C11_LockDiscipline == []C11_HolderState /\ [][C11_LockedStep]_vars

\* One worker records under the lock while the other waits for it with its
\* outcome in hand.
C11_Witness ==
    \E w \in Workers, x \in Workers :
        /\ lock = w
        /\ wk[w].pc = "record"
        /\ wk[x].pc = "lock"

\* The positions at which a worker creates, writes, measures or deletes at
\* its output path.
AtOutputPath == {"create", "write", "measure", "guard"}

\* C12: two workers never work at the same output path at once, whatever
\* the inputs' stems; the size a worker has measured is the size of the
\* artifact encoded from its own input; no entry of the output directory
\* holds bytes of two inputs; and at the end every input recorded as not
\* skipped still has its artifact, so no guard deletion took another
\* file's output.
C12_NoCrossFileRace ==
    /\ \A w \in Workers, x \in Workers :
          (w # x /\ wk[w].pc \in AtOutputPath /\ wk[x].pc \in AtOutputPath)
              => OutputPathOf(wk[w].file) # OutputPathOf(wk[x].file)
    /\ \A w \in Workers :
          wk[w].pc = "guard" => wk[w].compressed_size = files[wk[w].file].enc[args.format]
    /\ \A e \in outDir : Cardinality(e.writers) <= 1
    /\ BatchDone =>
          \A i \in Indices :
              (\E k \in ResultsOf(i) : ~Results[k].skipped) => ArtifactOf(i) # {}

JpegSpellings == {"jpg", "JPG", "jpeg", "JPEG"}

\* The estimate by bytes per pixel: 85 above 1.5, 75 above 1.0, 65 above 0.5,
\* else 50.
C13_Estimate(f) ==
    LET pixels == f.width * f.height IN
    IF 10 * f.size > 15 * pixels THEN 85
    ELSE IF 10 * f.size > 10 * pixels THEN 75
    ELSE IF 10 * f.size > 5 * pixels THEN 65
    ELSE 50

C13_SkipCondition(f) ==
    /\ f.ext \in JpegSpellings
    /\ args.format = "Jpeg"
    /\ args.quality >= C13_Estimate(f) - 10

C13_PreflightStep ==
    \A w \in Workers :
        (wk[w].pc = "preflight" /\ wk'[w].pc # "preflight"
            /\ files[wk[w].file].fault = "none") =>
            LET f == files[wk[w].file] IN
            IF C13_SkipCondition(f)
            THEN /\ wk'[w].pc = "lock"
                 /\ wk'[w].ret = Ok(f.size, f.size, TRUE)
                 /\ outDir' = outDir
            ELSE wk'[w].pc = "decode"

\* C13: for a readable input, compress_image returns (original, original,
\* skipped) from its pre-flight, with the output directory untouched,
\* exactly when the extension spells jpg or jpeg in any case, the target is
\* JPEG and quality >= estimate - 10; in every other case, so for every
\* other input extension and every other target, it goes on to decode.
C13_PreflightSkip == [][C13_PreflightStep]_vars

\* An upper-case JPEG skipped at the margin, quality = estimate - 10, with
\* nothing in the output directory.
C13_Witness ==
    \E w \in Workers :
        /\ wk[w].pc = "lock"
        /\ wk[w].ret.kind = "Ok"
        /\ wk[w].ret.skipped
        /\ files[wk[w].file].ext = "JPEG"
        /\ args.quality = C13_Estimate(files[wk[w].file]) - 10
        /\ outDir = {}

C14_OutOfRange == args.quality < 1 \/ args.quality > 100

C14_NothingDone ==
    C14_OutOfRange =>
        /\ mainPc \in {"validate", "failed"}
        /\ outDirMade = FALSE
        /\ pending = {}
        /\ \A w \in Workers : wk[w] = Idle
        /\ \A i \in Indices : calls[i] = 0
        /\ outDir = {}
        /\ stats = NewStats
        /\ pbPos = 0
        /\ report = "none"

C14_CheckedFirst ==
    /\ (mainPc = "validate" /\ mainPc' # mainPc) =>
          IF C14_OutOfRange THEN mainPc' = "failed" ELSE mainPc' = "mkdir"
    /\ mainPc' = "validate" => mainPc = "validate"

\* C14: with a quality outside 1..100 main fails in its first step: the
\* output directory is never created, no file is discovered, taken,
\* decoded, encoded or recorded, nothing is reported; the check is main's
\* first step and is never gone through again.
C14_ConfigFailureFirst == []C14_NothingDone /\ [][C14_CheckedFirst]_vars

\* main has failed on quality 101 with files waiting in the input directory.
C14_Witness ==
    /\ mainPc = "failed"
    /\ args.quality > 100
    /\ Len(files) > 0

NoFilesReport == report = "no image files found"

\* C15: main ends with 'no image files found' exactly when discovery found
\* nothing, and then successfully, with no file taken, nothing recorded and
\* nothing written; a run over n >= 1 files ends with the statistics
\* report, and when all n failed it shows files_processed = 0 and n errors.
C15_ZeroFilesVersusAllFailed ==
    /\ NoFilesReport =>
          /\ Len(files) = 0
          /\ mainPc = "done"
          /\ stats = NewStats
          /\ pbPos = 0
          /\ outDir = {}
          /\ \A w \in Workers : wk[w] = Idle
    /\ (mainPc = "done" /\ Len(files) = 0) => NoFilesReport
    /\ (mainPc = "done" /\ Len(files) >= 1) =>
          /\ report = "statistics"
          /\ Len(Results) = 0 =>
                /\ stats.files_processed = 0
                /\ Len(Errors) = Len(files)

\* The run over an empty input directory has ended with its message.
C15_Witness ==
    /\ NoFilesReport
    /\ mainPc = "done"
    /\ Len(files) = 0
    /\ outDirMade

\* Two files were attempted and both failed.
C15_AllFailed ==
    /\ BatchDone
    /\ Len(files) = 2
    /\ stats.files_processed = 0
    /\ Len(Errors) = 2

\* What compress_image returns for input f when no other file is processed
\* and no I/O call fails.
SoloOutcome(f) ==
    IF is_jpeg_ext(f) /\ f.fault = "corrupt" THEN Err("estimate")
    ELSE IF PreflightSkips(f) THEN SkipReturn(f.size, f.size)
    ELSE IF f.fault = "corrupt" THEN Err("decode")
    ELSE LET c == f.enc[args.format] IN
         IF GuardRejects(SavingsPercent(f.size, c), args.min_savings, c, f.size)
         THEN SkipReturn(f.size, c)
         ELSE Ok(f.size, c, FALSE)

RECURSIVE SoloSum(_, _)
SoloSum(n, field) ==
    IF n = 0 THEN 0
    ELSE LET r == SoloOutcome(files[n]) IN
         (IF r.kind = "Ok" THEN r[field] ELSE 0) + SoloSum(n - 1, field)

DistinctOutputPaths ==
    \A i \in Indices, j \in Indices : i # j => OutputPathOf(i) # OutputPathOf(j)

C16_SameAsAlone ==
    /\ \A i \in Indices :
          LET f == files[i]
              r == SoloOutcome(f) IN
          IF r.kind = "Ok"
          THEN \E k \in ResultsOf(i) :
                  Results[k] = FileResult(file_name(f), r.original_size,
                                          r.compressed_size, r.skipped)
          ELSE \E k \in ErrorsOf(i) : Errors[k].cause = r.cause
    /\ stats.original_size = SoloSum(Len(files), "original_size")
    /\ stats.compressed_size = SoloSum(Len(files), "compressed_size")
    /\ { << e.path, e.size >> : e \in outDir } =
          { << OutputPathOf(i), SoloOutcome(files[i]).compressed_size >> :
              i \in { j \in Indices : SoloOutcome(files[j]).kind = "Ok"
                                        /\ ~SoloOutcome(files[j]).skipped } }

\* C16: when no I/O call can fail, the end of a run is a function of the
\* inputs and the configuration, the same for every interleaving: each
\* input has the outcome it has when processed alone, the aggregates are
\* the sums of those, and the output directory holds exactly the artifacts
\* of the inputs that were not skipped, at their encoded sizes.
C16_Deterministic ==
    (BatchDone /\ \A i \in Indices : files[i].fault # "io") => C16_SameAsAlone

C16_DeterministicApart ==
    (BatchDone /\ DistinctOutputPaths /\ \A i \in Indices : files[i].fault # "io")
        => C16_SameAsAlone

\* The workers that have decoded their image and applied the resize match.
Decoded == { w \in Workers : wk[w].dims # << 0, 0 >> }

WithinOnePixel(n, bound, other, constrained) ==
    /\ n * constrained <= bound * other + constrained
    /\ n * constrained >= bound * other - constrained

\* C17: with only max_width set and a wider source, the image is exactly
\* max_width wide and its height is within 1 pixel of max_width * height /
\* width; with only max_height set and a taller source, it is exactly
\* max_height high and its width is within 1 pixel of max_height * width /
\* height.
C17_ResizeAspectLaw ==
    \A w \in Decoded :
        LET f == files[wk[w].file]
            d == wk[w].dims IN
        /\ (args.max_width # None /\ args.max_height = None /\ f.width > args.max_width[1]) =>
              /\ d[1] = args.max_width[1]
              /\ WithinOnePixel(d[2], args.max_width[1], f.height, f.width)
        /\ (args.max_height # None /\ args.max_width = None /\ f.height > args.max_height[1]) =>
              /\ d[2] = args.max_height[1]
              /\ WithinOnePixel(d[1], args.max_height[1], f.width, f.height)

C19_OneBoundOrNone ==
    \A w \in Decoded :
        LET f == files[wk[w].file]
            d == wk[w].dims
            mw == args.max_width
            mh == args.max_height IN
        /\ (mw = None /\ mh = None) => d = << f.width, f.height >>
        /\ (mw # None /\ mh = None) =>
              /\ f.width <= mw[1] => d = << f.width, f.height >>
              /\ d[1] <= f.width /\ d[2] <= f.height
        /\ (mw = None /\ mh # None) =>
              /\ f.height <= mh[1] => d = << f.width, f.height >>
              /\ d[1] <= f.width /\ d[2] <= f.height

C19_BothBounds ==
    \A w \in Decoded :
        (args.max_width # None /\ args.max_height # None) =>
            wk[w].dims = << args.max_width[1], args.max_height[1] >>

\* C19: without bounds the image keeps its dimensions; with one bound it
\* keeps them unless it strictly exceeds the bound on that axis, and is
\* never larger than the source on either axis; with both bounds it is
\* exactly max_width x max_height.
C19_ResizeDecision == C19_OneBoundOrNone /\ C19_BothBounds

FinalizeStep == mainPc = "batch" /\ mainPc' = "done"

C18_AllFinished ==
    /\ pending = {}
    /\ \A w \in Workers : wk[w] = Idle
    /\ lock = 0
    /\ \A i \in Indices : Cardinality(ResultsOf(i)) + Cardinality(ErrorsOf(i)) = 1

\* C18: main takes the statistics for print_results in a state in which
\* every file was taken and every worker has ended its last closure, so no
\* worker holds the mutex or can still reach the accumulator; from then on
\* the statistics never change and the mutex is never taken.
C18_FinalizationOrdering ==
    /\ [][FinalizeStep => C18_AllFinished]_vars
    /\ [](BatchDone => C18_AllFinished)
    /\ [][BatchDone => (stats' = stats /\ lock' = 0)]_vars

\* The report was made over a full batch with a result and an error in it.
C18_Witness ==
    /\ BatchDone
    /\ Len(files) = MaxFiles
    /\ Len(Results) >= 1
    /\ Len(Errors) >= 1

\* C20: with min_savings > 0 every recorded FileResult has compressed_size
\* <= original_size, and < when it is not skipped; its status is neither
\* 'Enlarged' nor, when not skipped, 'No change'; and the aggregate
\* compressed_size never exceeds the aggregate original_size.
C20_PositiveThresholdNeverGrows ==
    args.min_savings > 0 =>
        /\ \A k \in 1..Len(Results) :
              LET r == Results[k] IN
              /\ r.compressed_size <= r.original_size
              /\ ~r.skipped => r.compressed_size < r.original_size
              /\ r.status # "Enlarged"
              /\ ~r.skipped => r.status # "No change"
        /\ stats.compressed_size <= stats.original_size

\* With min_savings = 5, an input whose encoding is not smaller than the
\* original has been recorded as skipped, next to a compressed one.
C20_Witness ==
    /\ args.min_savings > 0
    /\ \E i \in Indices :
          /\ files[i].fault = "none"
          /\ files[i].enc[args.format] >= files[i].size
          /\ ~PreflightSkips(files[i])
          /\ \E k \in ResultsOf(i) : Results[k].skipped
    /\ \E k \in 1..Len(Results) : Results[k].status = "Compressed"

====
